---- MODULE Spec2Model ----
(***************************************************************************)
(* Model of the gin-logger aggregation engine: Logger.send (non-blocking   *)
(* enqueue on a buffered channel), the initLoggerAggregator select loop    *)
(* (ctx.Done / ticker / queue), the grouping key, the accumulator update   *)
(* and printLogs/printLog (the emitted summaries); and of the construction *)
(* of the Logger (configure, the options, New) and of its Middleware.      *)
(*                                                                         *)
(* Strings are TLA+ strings; durations are integers in milliseconds.       *)
(***************************************************************************)
EXTENDS Integers, Sequences, FiniteSets, TLC

\* ------------------------------------------------------------------------
\* Bounds of the model
\* ------------------------------------------------------------------------
\* Largest channel capacity tried (aggregationQueueSize ranges over 1..MaxQueueSize).
MaxQueueSize == 2
\* Number of requests (calls of send) explored.
MaxSends == 3
\* Number of times the ctx.Done() branch of the loop is followed.
MaxDoneObserved == 2
\* Number of options passed to New.
MaxOpts == 2
\* Number of requests served by the middleware.
MaxRequests == 2

\* ------------------------------------------------------------------------
\* Observation records handed to send by the middleware
\* ------------------------------------------------------------------------
Obs(ip, status, ua, method, proto, path, latency, size) ==
    [ip |-> ip, remoteIp |-> "r", statusCode |-> status, ua |-> ua,
     method |-> method, proto |-> proto, aggregatePath |-> path,
     latency |-> latency, responseBodySize |-> size]

\* Three requests of one series, one differing only in the status code, and
\* two whose user agent / method contain the key separator.
Observations ==
    { Obs("1", 200, "a", "G", "h", "p", 50, 100),
      Obs("1", 200, "a", "G", "h", "p", 20, 200),
      Obs("1", 200, "a", "G", "h", "p", 70, 50),
      Obs("1", 404, "a", "G", "h", "p", 20, 0),
      Obs("1", 200, "a_b", "c", "h", "p", 20, 50),
      Obs("1", 200, "a", "b_c", "h", "p", 70, 100) }

\* User agents the configured BotDetector classifies as bots.
BotAgents == {"a_b"}

\* ------------------------------------------------------------------------
\* Pure helpers
\* ------------------------------------------------------------------------
Digits == <<"0", "1", "2", "3", "4", "5", "6", "7", "8", "9">>

RECURSIVE ItoaNat(_)
ItoaNat(n) ==
    IF n < 10 THEN Digits[n + 1]
    ELSE ItoaNat(n \div 10) \o Digits[(n % 10) + 1]

\* strconv.Itoa
Itoa(n) == IF n < 0 THEN "-" \o ItoaNat(0 - n) ELSE ItoaNat(n)

\* A key that leaves the status code out.
BuildKeyNoStatus(st) ==
    st.ip \o "_" \o "_" \o
    st.ua \o "_" \o st.method \o "_" \o st.proto \o "_" \o "_" \o st.aggregatePath

\* The grouping key of the aggregator loop.
BuildKey(st) ==
    st.ip \o "_" \o Itoa(st.statusCode) \o "_" \o
    st.ua \o "_" \o st.method \o "_" \o st.proto \o "_" \o "_" \o st.aggregatePath

\* A detector lookup that reports a detector even when none is configured.
botDetectorInfoAlways(c, userAgent) ==
    IF c.botDetectionService
    THEN <<TRUE, IF userAgent \in BotAgents THEN 1 ELSE 0>>
    ELSE <<TRUE, 0>>

\* conf.botDetectorInfo: <<hasBotDetector, isBot>>
botDetectorInfo(c, userAgent) ==
    IF c.botDetectionService
    THEN <<TRUE, IF userAgent \in BotAgents THEN 1 ELSE 0>>
    ELSE <<FALSE, 0>>

\* A creation that already counts the creating record.
NewEntryCountOne(c, st) ==
    [ip |-> st.ip, remoteIp |-> st.remoteIp, ua |-> st.ua, method |-> st.method,
     statusCode |-> st.statusCode, isAggregate |-> TRUE, count |-> 1,
     sumLatency |-> 0, maxLatency |-> st.latency, minLatency |-> st.latency,
     sumSizeRespoBody |-> st.responseBodySize,
     isBotDetectorEnabled |-> botDetectorInfo(c, st.ua)[1],
     isBot |-> botDetectorInfo(c, st.ua)[2],
     proto |-> st.proto, aggregatePath |-> st.aggregatePath]

\* The logEntry literal built when the key is not yet in the table.
NewEntry(c, st) ==
    [ip |-> st.ip, remoteIp |-> st.remoteIp, ua |-> st.ua, method |-> st.method,
     statusCode |-> st.statusCode, isAggregate |-> TRUE, count |-> 0,
     sumLatency |-> 0, maxLatency |-> st.latency, minLatency |-> st.latency,
     sumSizeRespoBody |-> st.responseBodySize,
     isBotDetectorEnabled |-> botDetectorInfo(c, st.ua)[1],
     isBot |-> botDetectorInfo(c, st.ua)[2],
     proto |-> st.proto, aggregatePath |-> st.aggregatePath]

\* An accumulator update that forgets to count the record.
UpdateStatsNoCount(v, st) ==
    [v EXCEPT !.maxLatency = IF v.maxLatency < st.latency THEN st.latency ELSE @,
              !.minLatency = IF v.minLatency > st.latency THEN st.latency ELSE @,
              !.sumLatency = @ + st.latency,
              !.sumSizeRespoBody = @ + st.responseBodySize]

\* An accumulator update that also takes the user agent of the record.
UpdateStatsOverwriteUa(v, st) ==
    [v EXCEPT !.count = @ + 1,
              !.ua = st.ua,
              !.maxLatency = IF v.maxLatency < st.latency THEN st.latency ELSE @,
              !.minLatency = IF v.minLatency > st.latency THEN st.latency ELSE @,
              !.sumLatency = @ + st.latency,
              !.sumSizeRespoBody = @ + st.responseBodySize]

\* An accumulator update that stops after count++.
UpdateStatsCountOnly(v, st) ==
    [v EXCEPT !.count = @ + 1]

\* An accumulator update that never lowers the minimum.
UpdateStatsNoMin(v, st) ==
    [v EXCEPT !.count = @ + 1,
              !.maxLatency = IF v.maxLatency < st.latency THEN st.latency ELSE @,
              !.sumLatency = @ + st.latency,
              !.sumSizeRespoBody = @ + st.responseBodySize]

\* An accumulator update that never raises the maximum.
UpdateStatsNoMax(v, st) ==
    [v EXCEPT !.count = @ + 1,
              !.minLatency = IF v.minLatency > st.latency THEN st.latency ELSE @,
              !.sumLatency = @ + st.latency,
              !.sumSizeRespoBody = @ + st.responseBodySize]

\* The update applied to the accumulator for every received record.
UpdateStats(v, st) ==
    [v EXCEPT !.count = @ + 1,
              !.maxLatency = IF v.maxLatency < st.latency THEN st.latency ELSE @,
              !.minLatency = IF v.minLatency > st.latency THEN st.latency ELSE @,
              !.sumLatency = @ + st.latency,
              !.sumSizeRespoBody = @ + st.responseBodySize]

RECURSIVE Gcd(_, _)
Gcd(a, b) == IF b = 0 THEN a ELSE Gcd(b, a % b)

\* float64(num) / float64(den) kept exact, as a reduced fraction.
FloatDiv(num, den) ==
    [num |-> num \div Gcd(num, den), den |-> den \div Gcd(num, den)]

\* printLog: the attributes handed to the logging handler under message msg;
\* optional attributes are sequences of length 0 or 1.  The query string,
\* headers, extra fields and static entries are not modelled.
printLog(msg, v) ==
    IF v.isAggregate
    THEN [msg |-> msg,
          ip |-> v.ip, remoteIp |-> v.remoteIp, ua |-> v.ua, method |-> v.method,
          proto |-> v.proto, statusCode |-> v.statusCode, counter |-> v.count,
          isBot |-> IF v.isBotDetectorEnabled THEN <<v.isBot>> ELSE <<>>,
          aggregatePath |-> IF v.aggregatePath # "" THEN <<v.aggregatePath>>
                            ELSE <<>>,
          meanLatency |-> v.sumLatency \div v.count,
          minLatency |-> v.minLatency,
          maxLatency |-> v.maxLatency,
          meanSizeRespBody |-> IF v.sumSizeRespoBody > 0 /\ v.count # 0
                               THEN FloatDiv(v.sumSizeRespoBody, v.count)
                               ELSE FloatDiv(0, 1),
          sumSizeRespBody |-> v.sumSizeRespoBody]
    ELSE [msg |-> msg,
          ip |-> v.ip, remoteIp |-> v.remoteIp, ua |-> v.ua, method |-> v.method,
          proto |-> v.proto, statusCode |-> v.statusCode, counter |-> v.count,
          isBot |-> IF v.isBotDetectorEnabled THEN <<v.isBot>> ELSE <<>>,
          aggregatePath |-> IF v.aggregatePath # "" THEN <<v.aggregatePath>>
                            ELSE <<>>,
          path |-> IF v.path # "" THEN <<v.path>> ELSE <<>>,
          latency |-> v.latency,
          responseSize |-> v.responseBodySize]

\* A printLogs that returns after the first entry of the range.
printLogsFirstOnly(stats) ==
    IF DOMAIN stats = {} THEN {}
    ELSE { printLog("api_logger v1", stats[CHOOSE k \in DOMAIN stats : TRUE]) }

\* printLogs: the summaries one flush hands to the logging handler.
printLogs(stats) == { printLog("api_logger v1", stats[k]) : k \in DOMAIN stats }

\* ------------------------------------------------------------------------
\* Configuration
\* ------------------------------------------------------------------------
\* The conf literal of configure, before the options are applied (durations
\* in milliseconds; botDetectionService is TRUE when a detector is set).
DefaultConf ==
    [defaultLogMessage |-> "logger v1",
     botDetectionService |-> FALSE,
     excludedPaths |-> {},
     isAggregationEnabled |-> FALSE,
     aggregationQueueSize |-> 100,
     aggregationInterval |-> 10000]

\* The options a caller may pass to New.
Options ==
    { [name |-> "WithTimeAggregation", arg |-> d] : d \in {-1000, 0, 5000} }
    \cup { [name |-> "WithAggregation", arg |-> b] : b \in BOOLEAN }
    \cup { [name |-> "WithQueueSize", arg |-> n] : n \in {-1, 0, 2} }
    \cup { [name |-> "WithLogMessage", arg |-> "custom"],
           [name |-> "WithBotDetector", arg |-> TRUE],
           [name |-> "WithSkipPaths", arg |-> {"/health"}] }

\* An option set in which WithQueueSize also switches aggregation on.
ApplyQueueSizeEnables(o, c) ==
    CASE o.name = "WithTimeAggregation" ->
            [c EXCEPT !.isAggregationEnabled = TRUE, !.aggregationInterval = o.arg]
      [] o.name = "WithAggregation" -> [c EXCEPT !.isAggregationEnabled = o.arg]
      [] o.name = "WithQueueSize" ->
            [c EXCEPT !.aggregationQueueSize = o.arg, !.isAggregationEnabled = TRUE]
      [] o.name = "WithLogMessage" -> [c EXCEPT !.defaultLogMessage = o.arg]
      [] o.name = "WithBotDetector" -> [c EXCEPT !.botDetectionService = o.arg]
      [] o.name = "WithSkipPaths" -> [c EXCEPT !.excludedPaths = o.arg]

\* The effect of one Option closure on the conf.
Apply(o, c) ==
    CASE o.name = "WithTimeAggregation" ->
            [c EXCEPT !.isAggregationEnabled = TRUE, !.aggregationInterval = o.arg]
      [] o.name = "WithAggregation" -> [c EXCEPT !.isAggregationEnabled = o.arg]
      [] o.name = "WithQueueSize" -> [c EXCEPT !.aggregationQueueSize = o.arg]
      [] o.name = "WithLogMessage" -> [c EXCEPT !.defaultLogMessage = o.arg]
      [] o.name = "WithBotDetector" -> [c EXCEPT !.botDetectionService = o.arg]
      [] o.name = "WithSkipPaths" -> [c EXCEPT !.excludedPaths = o.arg]

\* The option lists of length at most MaxOpts.
OptionLists == UNION { [1..n -> Options] : n \in 0..MaxOpts }

\* ------------------------------------------------------------------------
\* Requests seen by the middleware
\* ------------------------------------------------------------------------
Requests ==
    { [path |-> "/health", route |-> "/health", statusCode |-> 200, ua |-> "a",
       latency |-> 20, size |-> 50],
      [path |-> "/x", route |-> "/x", statusCode |-> 200, ua |-> "a_b",
       latency |-> 50, size |-> 100],
      [path |-> "/nf", route |-> "", statusCode |-> 404, ua |-> "a",
       latency |-> 20, size |-> 0] }

\* The default pathMappingFunction of configure.
pathMappingFunction(route, path, statusCode) ==
    IF route = ""
    THEN IF statusCode >= 400 /\ statusCode < 500 THEN "error_4xx"
         ELSE IF statusCode >= 500 THEN "error_5xx"
         ELSE "missing_route"
    ELSE route

\* Logger.buildLogEntry: the entry of one completed request.
buildLogEntry(c, r) ==
    [ip |-> "1", remoteIp |-> "r", ua |-> r.ua, method |-> "G",
     aggregatePath |-> pathMappingFunction(r.route, r.path, r.statusCode),
     statusCode |-> r.statusCode, count |-> 1, proto |-> "h",
     isAggregate |-> FALSE, path |-> r.path,
     latency |-> r.latency, responseBodySize |-> r.size,
     isBotDetectorEnabled |-> FALSE,
     isBot |-> IF c.botDetectionService /\ r.ua \in BotAgents THEN 1 ELSE 0]

EmptyTable == [k \in {} |-> 0]

\* ------------------------------------------------------------------------
\* State
\* ------------------------------------------------------------------------
VARIABLES
    conf,          \* the configuration: queue size, bot detector present
    queue,         \* the buffered channel a.queue
    logEntries,    \* the loop's map key -> accumulator
    ctxDone,       \* the context has been cancelled
    tickC,         \* ticks buffered in the ticker channel t.C (capacity 1)
    tickerStopped, \* t.Stop() has been called
    out,           \* the flushes emitted so far, each the set of its summaries
    warnings,      \* number of "queue channel is full" warnings
    sent,          \* history: number of calls of send
    window,        \* history: records merged since the last flush, in order
    doneObserved,  \* history: times the loop took the ctx.Done() branch
    lastBranch,    \* history: the select branch the loop took last
    loopIsBotCalls, \* history: calls of BotDetector.IsBot made by the loop
    pc,            \* construction: "configure", "new", "startLoop", "serving", "panic"
    opts,          \* the options passed to New
    optIdx,        \* index of the next option configure applies
    queueCreated,  \* a.queue has been made (it is nil otherwise)
    tickerPeriod,  \* period of the loop's ticker, 0 while no loop runs
    logged,        \* the records the middleware printed itself, in order
    handled        \* history: the requests the middleware has served

\* The variables of the construction and of the middleware.
lvars == <<pc, opts, optIdx, queueCreated, tickerPeriod, logged, handled>>

vars == <<conf, queue, logEntries, ctxDone, tickC, tickerStopped, out,
          warnings, sent, window, doneObserved, lastBranch, loopIsBotCalls,
          lvars>>

\* The engine after New with aggregation enabled: configure, make(chan, size),
\* the loop started with its ticker.
Init ==
    /\ conf \in { [DefaultConf EXCEPT !.isAggregationEnabled = TRUE,
                                      !.aggregationQueueSize = n,
                                      !.botDetectionService = b] :
                     n \in 1..MaxQueueSize, b \in BOOLEAN }
    /\ lastBranch = "none"
    /\ loopIsBotCalls = 0
    /\ pc = "serving"
    /\ opts = <<>>
    /\ optIdx = 1
    /\ queueCreated = TRUE
    /\ tickerPeriod = DefaultConf.aggregationInterval
    /\ logged = <<>>
    /\ handled = <<>>
    /\ queue = <<>>
    /\ logEntries = EmptyTable
    /\ ctxDone = FALSE
    /\ tickC = 0
    /\ tickerStopped = FALSE
    /\ out = <<>>
    /\ warnings = 0
    /\ sent = 0
    /\ window = <<>>
    /\ doneObserved = 0

\* ------------------------------------------------------------------------
\* Producers
\* ------------------------------------------------------------------------
\* A send that waits for room instead of dropping.
SendBlocking(l) ==
    /\ sent < MaxSends
    /\ Len(queue) < conf.aggregationQueueSize
    /\ queue' = Append(queue, l)
    /\ sent' = sent + 1
    /\ UNCHANGED <<conf, logEntries, ctxDone, tickC, tickerStopped, out,
                   warnings, window, doneObserved, lastBranch,
                   loopIsBotCalls, lvars>>

\* A send that appends whether or not the queue has room.
trySendAlways(l) ==
    /\ queue' = Append(queue, l)
    /\ warnings' = warnings
    /\ sent' = sent + 1

\* A send that drops on a full queue without the warning.
trySendSilentDrop(l) ==
    /\ IF Len(queue) < conf.aggregationQueueSize
       THEN queue' = Append(queue, l) /\ warnings' = warnings
       ELSE queue' = queue /\ warnings' = warnings
    /\ sent' = sent + 1

\* Logger.send: select { case a.queue <- l: default: slog.Warn(...) }
trySend(l) ==
    /\ IF Len(queue) < conf.aggregationQueueSize
       THEN queue' = Append(queue, l) /\ warnings' = warnings
       ELSE queue' = queue /\ warnings' = warnings + 1
    /\ sent' = sent + 1

\* A request-handling task calls send while the loop runs.
send(l) ==
    /\ sent < MaxSends
    /\ trySend(l)
    /\ UNCHANGED <<conf, logEntries, ctxDone, tickC, tickerStopped, out,
                   window, doneObserved, lastBranch,
                   loopIsBotCalls, lvars>>

\* ------------------------------------------------------------------------
\* Environment: cancellation and the ticker
\* ------------------------------------------------------------------------
Cancel ==
    /\ ~ctxDone
    /\ ctxDone' = TRUE
    /\ UNCHANGED <<conf, queue, logEntries, tickC, tickerStopped, out,
                   warnings, sent, window, doneObserved, lastBranch,
                   loopIsBotCalls, lvars>>

\* The ticker delivers a tick into t.C unless one is already buffered.
Tick ==
    /\ ~tickerStopped
    /\ tickC = 0
    /\ tickC' = 1
    /\ UNCHANGED <<conf, queue, logEntries, ctxDone, tickerStopped, out,
                   warnings, sent, window, doneObserved, lastBranch,
                   loopIsBotCalls, lvars>>

\* ------------------------------------------------------------------------
\* The aggregator loop: one select branch per iteration
\* ------------------------------------------------------------------------
\* A flush that hands the handler a batch even for an empty table.
FlushAlways ==
    /\ out' = Append(out, printLogs(logEntries))
    /\ logEntries' = EmptyTable
    /\ window' = <<>>

\* A flush that keeps the table for the next window.
FlushKeepTable ==
    /\ out' = IF DOMAIN logEntries = {} THEN out
              ELSE Append(out, printLogs(logEntries))
    /\ logEntries' = logEntries
    /\ window' = <<>>

\* A flush that replaces the table without printing it.
FlushDiscard ==
    /\ out' = out
    /\ logEntries' = EmptyTable
    /\ window' = <<>>

\* printLogs(logEntries, duration); logEntries = make(map[string]logEntry)
Flush ==
    /\ out' = IF DOMAIN logEntries = {} THEN out
              ELSE Append(out, printLogs(logEntries))
    /\ logEntries' = EmptyTable
    /\ window' = <<>>

\* case <-ctx.Done(): t.Stop(); printLogs; fresh map (the loop goes on)
LoopDone ==
    /\ ctxDone
    /\ doneObserved < MaxDoneObserved
    /\ tickerStopped' = TRUE
    /\ Flush
    /\ doneObserved' = doneObserved + 1
    /\ lastBranch' = "done"
    /\ UNCHANGED <<conf, queue, ctxDone, tickC, warnings, sent,
                   loopIsBotCalls, lvars>>

\* case <-t.C: printLogs; fresh map
LoopTick ==
    /\ tickC = 1
    /\ tickC' = 0
    /\ Flush
    /\ lastBranch' = "tick"
    /\ UNCHANGED <<conf, queue, ctxDone, tickerStopped, warnings, sent,
                   doneObserved, loopIsBotCalls, lvars>>

\* A receive branch that asks the detector again for every record.
LoopRecvConsultAlways ==
    /\ queue # <<>>
    /\ LET st == Head(queue)
           key == BuildKey(st)
           v == IF key \in DOMAIN logEntries
                THEN [logEntries[key] EXCEPT
                        !.isBotDetectorEnabled = botDetectorInfo(conf, st.ua)[1],
                        !.isBot = botDetectorInfo(conf, st.ua)[2]]
                ELSE NewEntry(conf, st)
       IN /\ logEntries' = (key :> UpdateStats(v, st)) @@ logEntries
          /\ window' = Append(window, st)
          /\ loopIsBotCalls' = IF conf.botDetectionService
                               THEN loopIsBotCalls + 1 ELSE loopIsBotCalls
    /\ queue' = Tail(queue)
    /\ lastBranch' = "recv"
    /\ UNCHANGED <<conf, ctxDone, tickC, tickerStopped, out, warnings, sent,
                   doneObserved, lvars>>

\* case st := <-c: create the accumulator if needed (asking the detector, if
\* one is configured, for the record's user agent), update it, store it
LoopRecv ==
    /\ queue # <<>>
    /\ LET st == Head(queue)
           key == BuildKey(st)
           v == IF key \in DOMAIN logEntries THEN logEntries[key]
                ELSE NewEntry(conf, st)
       IN /\ logEntries' = (key :> UpdateStats(v, st)) @@ logEntries
          /\ window' = Append(window, st)
          /\ loopIsBotCalls' = IF key \notin DOMAIN logEntries
                                  /\ conf.botDetectionService
                               THEN loopIsBotCalls + 1 ELSE loopIsBotCalls
    /\ queue' = Tail(queue)
    /\ lastBranch' = "recv"
    /\ UNCHANGED <<conf, ctxDone, tickC, tickerStopped, out, warnings, sent,
                   doneObserved, lvars>>

Next ==
    \/ \E l \in Observations : send(l)
    \/ Cancel
    \/ Tick
    \/ LoopDone
    \/ LoopTick
    \/ LoopRecv

Spec == Init /\ [][Next]_vars

\* ------------------------------------------------------------------------
\* Construction of the Logger and its middleware
\* ------------------------------------------------------------------------
\* The variables of the running loop, untouched while the Logger is built
\* and while the middleware serves.
evars == <<logEntries, ctxDone, tickC, tickerStopped, out, window,
           doneObserved, lastBranch, loopIsBotCalls>>

\* New(ctx, opts...) is called with some list of options.
InitLogger ==
    /\ conf = DefaultConf
    /\ opts \in OptionLists
    /\ optIdx = 1
    /\ pc = "configure"
    /\ queueCreated = FALSE
    /\ tickerPeriod = 0
    /\ logged = <<>>
    /\ handled = <<>>
    /\ queue = <<>>
    /\ logEntries = EmptyTable
    /\ ctxDone = FALSE
    /\ tickC = 0
    /\ tickerStopped = FALSE
    /\ out = <<>>
    /\ warnings = 0
    /\ sent = 0
    /\ window = <<>>
    /\ doneObserved = 0
    /\ lastBranch = "none"
    /\ loopIsBotCalls = 0

\* configure: for _, opt := range opts { opt(c) }
ApplyOption ==
    /\ pc = "configure"
    /\ optIdx <= Len(opts)
    /\ conf' = Apply(opts[optIdx], conf)
    /\ optIdx' = optIdx + 1
    /\ UNCHANGED <<pc, opts, queueCreated, tickerPeriod, logged, handled,
                   queue, warnings, sent, evars>>

\* configure returns the conf.
ConfigureReturn ==
    /\ pc = "configure"
    /\ optIdx > Len(opts)
    /\ pc' = "new"
    /\ UNCHANGED <<conf, opts, optIdx, queueCreated, tickerPeriod, logged,
                   handled, queue, warnings, sent, evars>>

\* New: make(chan logEntry, size) and go initLoggerAggregator when aggregation
\* is enabled; make panics on a negative size.
NewLogger ==
    /\ pc = "new"
    /\ IF conf.isAggregationEnabled
       THEN IF conf.aggregationQueueSize < 0
            THEN pc' = "panic" /\ queueCreated' = queueCreated
            ELSE pc' = "startLoop" /\ queueCreated' = TRUE
       ELSE pc' = "serving" /\ queueCreated' = queueCreated
    /\ UNCHANGED <<conf, opts, optIdx, tickerPeriod, logged, handled,
                   queue, warnings, sent, evars>>

\* initLoggerAggregator: time.NewTicker(duration) panics on a non-positive
\* duration; otherwise the loop runs with that period.
StartLoop ==
    /\ pc = "startLoop"
    /\ IF conf.aggregationInterval <= 0
       THEN pc' = "panic" /\ tickerPeriod' = tickerPeriod
       ELSE pc' = "serving" /\ tickerPeriod' = conf.aggregationInterval
    /\ UNCHANGED <<conf, opts, optIdx, queueCreated, logged, handled,
                   queue, warnings, sent, evars>>

\* A middleware that falls through to printLog after send.
MiddlewareNoReturn(r) ==
    /\ pc = "serving"
    /\ Len(handled) < MaxRequests
    /\ handled' = Append(handled, r)
    /\ IF r.path \in conf.excludedPaths
       THEN UNCHANGED <<queue, warnings, sent, logged>>
       ELSE IF conf.isAggregationEnabled
            THEN /\ trySend([buildLogEntry(conf, r) EXCEPT !.isAggregate = TRUE])
                 /\ logged' = Append(logged,
                                     printLog("api_logger v1",
                                              buildLogEntry(conf, r)))
            ELSE /\ logged' = Append(logged,
                                     printLog("api_logger v1",
                                              buildLogEntry(conf, r)))
                 /\ UNCHANGED <<queue, warnings, sent>>
    /\ UNCHANGED <<conf, pc, opts, optIdx, queueCreated, tickerPeriod, evars>>

\* A middleware that ignores the skip list.
MiddlewareNoSkip(r) ==
    /\ pc = "serving"
    /\ Len(handled) < MaxRequests
    /\ handled' = Append(handled, r)
    /\ IF conf.isAggregationEnabled
       THEN /\ trySend([buildLogEntry(conf, r) EXCEPT !.isAggregate = TRUE])
            /\ logged' = logged
       ELSE /\ logged' = Append(logged,
                                printLog("api_logger v1",
                                         buildLogEntry(conf, r)))
            /\ UNCHANGED <<queue, warnings, sent>>
    /\ UNCHANGED <<conf, pc, opts, optIdx, queueCreated, tickerPeriod, evars>>

\* The handler returned by Logger.Middleware, for one request: skipped paths
\* are only passed on; otherwise the entry is sent to the queue (aggregation)
\* or printed.  The loop is not scheduled in this specification.
Middleware(r) ==
    /\ pc = "serving"
    /\ Len(handled) < MaxRequests
    /\ handled' = Append(handled, r)
    /\ IF r.path \in conf.excludedPaths
       THEN UNCHANGED <<queue, warnings, sent, logged>>
       ELSE IF conf.isAggregationEnabled
            THEN /\ trySend([buildLogEntry(conf, r) EXCEPT !.isAggregate = TRUE])
                 /\ logged' = logged
            ELSE /\ logged' = Append(logged,
                                     printLog("api_logger v1",
                                              buildLogEntry(conf, r)))
                 /\ UNCHANGED <<queue, warnings, sent>>
    /\ UNCHANGED <<conf, pc, opts, optIdx, queueCreated, tickerPeriod, evars>>

NextLogger ==
    \/ ApplyOption
    \/ ConfigureReturn
    \/ NewLogger
    \/ StartLoop
    \/ \E r \in Requests : Middleware(r)

SpecLogger == InitLogger /\ [][NextLogger]_vars

\* ------------------------------------------------------------------------
\* Vocabulary of the properties
\* ------------------------------------------------------------------------
\* The summaries of the most recent emitting flush.
LastBatch == out[Len(out)]

\* A step in which printLogs emitted at least one summary.
Emits == out' # out

\* The grouping key recomputed from the identity fields of a summary.
KeyOf(s) ==
    BuildKey([ip |-> s.ip, statusCode |-> s.statusCode, ua |-> s.ua,
              method |-> s.method, proto |-> s.proto,
              aggregatePath |-> IF s.aggregatePath = <<>> THEN ""
                                ELSE s.aggregatePath[1]])

\* The records of the current window that carry key k, in arrival order.
WindowOfKey(k) == SelectSeq(window, LAMBDA r : BuildKey(r) = k)

RECURSIVE SumSize(_)
SumSize(rs) ==
    IF rs = <<>> THEN 0 ELSE Head(rs).responseBodySize + SumSize(Tail(rs))

RECURSIVE SumLat(_)
SumLat(rs) == IF rs = <<>> THEN 0 ELSE Head(rs).latency + SumLat(Tail(rs))

Lats(rs) == { rs[i].latency : i \in DOMAIN rs }

MinOf(S) == CHOOSE x \in S : \A y \in S : x <= y

MaxOf(S) == CHOOSE x \in S : \A y \in S : x >= y

SameFields(r1, r2) ==
    /\ r1.ip = r2.ip
    /\ r1.statusCode = r2.statusCode
    /\ r1.ua = r2.ua
    /\ r1.method = r2.method
    /\ r1.proto = r2.proto
    /\ r1.aggregatePath = r2.aggregatePath

DiffersOnlyInStatus(r1, r2) ==
    /\ r1.ip = r2.ip
    /\ r1.statusCode # r2.statusCode
    /\ r1.ua = r2.ua
    /\ r1.method = r2.method
    /\ r1.proto = r2.proto
    /\ r1.aggregatePath = r2.aggregatePath

HasSeparator(str) == \E i \in 1..Len(str) : SubSeq(str, i, i) = "_"

SeparatorFree(r) ==
    /\ ~HasSeparator(r.ip)
    /\ ~HasSeparator(r.ua)
    /\ ~HasSeparator(r.method)
    /\ ~HasSeparator(r.proto)
    /\ ~HasSeparator(r.aggregatePath)

\* ------------------------------------------------------------------------
\* Shutdown
\* ------------------------------------------------------------------------
\* C1: once the loop has taken the ctx.Done() branch, which flushes the whole
\* table, no summary is emitted any more, whatever the producers do.
C1_OneTerminalFlush ==
    [][ /\ (doneObserved = 0 /\ doneObserved' = 1) =>
              out' = IF DOMAIN logEntries = {} THEN out
                     ELSE Append(out, printLogs(logEntries))
        /\ doneObserved >= 1 => out' = out ]_vars

\* C2: after the loop has observed shutdown no record is merged into the
\* table: the table stays empty and the merged window stays empty.
C2_NoMergeAfterShutdown ==
    doneObserved >= 1 => (DOMAIN logEntries = {} /\ window = <<>>)

\* C3: Stopped is terminal: after the loop has taken the ctx.Done() branch it
\* takes no further step (it neither receives, nor flushes, nor observes the
\* signal again); only producers still act on the queue.
C3_StoppedIsTerminal ==
    [][ doneObserved >= 1 =>
          /\ UNCHANGED <<logEntries, window, out, tickC, tickerStopped,
                         doneObserved>>
          /\ Len(queue') >= Len(queue) ]_vars

\* ------------------------------------------------------------------------
\* Accumulator statistics
\* ------------------------------------------------------------------------
\* C4: the sumSizeRespBody of every emitted summary is the sum of the response
\* sizes of the records of its key merged in the window, each counted once.
C4_SumResponseSize ==
    [][ Emits => \A s \in LastBatch' :
                   s.sumSizeRespBody = SumSize(WindowOfKey(KeyOf(s))) ]_vars

\* C5: a flush emits exactly one summary for every key merged in the window,
\* and its counter is the number of records of that key merged in the window.
C5_CountEqualsN ==
    [][ Emits =>
          /\ \A i \in DOMAIN window :
               Cardinality({ s \in LastBatch' :
                               KeyOf(s) = BuildKey(window[i]) }) = 1
          /\ \A s \in LastBatch' :
               s.counter = Len(WindowOfKey(KeyOf(s))) ]_vars

\* C5 witness: a summary that aggregates at least two records was emitted.
C5_Witness ==
    \E i \in DOMAIN out : \E s \in out[i] : s.counter >= 2

\* C6: every emitted summary carries the minimum, the maximum and the integer
\* mean (sum divided by count) of the latencies merged for its key.
C6_LatencyStats ==
    [][ Emits => \A s \in LastBatch' :
          LET rs == WindowOfKey(KeyOf(s))
          IN /\ rs # <<>>
             /\ s.minLatency = MinOf(Lats(rs))
             /\ s.maxLatency = MaxOf(Lats(rs))
             /\ s.meanLatency = SumLat(rs) \div Len(rs) ]_vars

\* C6 witness: a summary of three records with distinct extremes was emitted.
C6_Witness ==
    \E i \in DOMAIN out : \E s \in out[i] :
        s.counter = 3 /\ s.minLatency < s.meanLatency
                      /\ s.meanLatency < s.maxLatency

ScenarioFirst == Obs("1", 200, "a", "G", "h", "p", 50, 100)

ScenarioSecond == Obs("1", 200, "a", "G", "h", "p", 20, 200)

\* C8: with capacity 2, a third send while the first two records (50ms/100,
\* 20ms/200) are queued is dropped with a warning, and the flush of the window
\* holding those two records emits count 2, min 20ms, max 50ms, mean 35ms,
\* sum 300 and mean size 150.
C8_Scenario ==
    [][ /\ ( /\ conf.aggregationQueueSize = 2
             /\ queue = <<ScenarioFirst, ScenarioSecond>>
             /\ sent' = sent + 1 ) =>
                 (queue' = queue /\ warnings' = warnings + 1)
        /\ ( /\ conf.aggregationQueueSize = 2
             /\ window = <<ScenarioFirst, ScenarioSecond>>
             /\ warnings = 1 /\ sent = 3
             /\ Emits ) =>
                 \E s \in LastBatch' :
                    /\ LastBatch' = {s}
                    /\ s.counter = 2
                    /\ s.minLatency = 20
                    /\ s.maxLatency = 50
                    /\ s.meanLatency = 35
                    /\ s.sumSizeRespBody = 300
                    /\ s.meanSizeRespBody = [num |-> 150, den |-> 1] ]_vars

\* ------------------------------------------------------------------------
\* Grouping
\* ------------------------------------------------------------------------
\* C9: a flush emits one summary per distinct key of the window, no two
\* summaries share a key, and two records that differ only in the status code
\* end in two different summaries, each with counter 1 when they are the only
\* records of their keys.
C9_SeparateSummaries ==
    [][ Emits =>
          /\ \A s1, s2 \in LastBatch' : s1 # s2 => KeyOf(s1) # KeyOf(s2)
          /\ Cardinality(LastBatch') =
                Cardinality({ BuildKey(window[i]) : i \in DOMAIN window })
          /\ \A i, j \in DOMAIN window :
               DiffersOnlyInStatus(window[i], window[j]) =>
                 \E s1, s2 \in LastBatch' :
                    /\ s1 # s2
                    /\ KeyOf(s1) = BuildKey(window[i])
                    /\ KeyOf(s2) = BuildKey(window[j])
                    /\ s1.statusCode = window[i].statusCode
                    /\ s2.statusCode = window[j].statusCode
                    /\ (Len(window) = 2 => s1.counter = 1 /\ s2.counter = 1) ]_vars

\* C9 witness: one flush emitted a 200 summary and a 404 summary, each of
\* counter 1.
C9_Witness ==
    \E i \in DOMAIN out : \E s1, s2 \in out[i] :
        /\ Cardinality(out[i]) = 2
        /\ s1.statusCode = 200 /\ s2.statusCode = 404
        /\ s1.ua = s2.ua /\ s1.method = s2.method
        /\ s1.counter = 1 /\ s2.counter = 1

\* C10 as stated: any two records merged in a window have equal keys if and
\* only if their six categorical fields are equal.
C10_KeyIffFields ==
    \A i, j \in DOMAIN window :
        (BuildKey(window[i]) = BuildKey(window[j]))
            <=> SameFields(window[i], window[j])

\* C10 amended: equal fields give equal keys, and equal keys give equal fields
\* for records whose string fields do not contain the separator "_".
C10_KeyIffFieldsNoSeparator ==
    \A i, j \in DOMAIN window :
        /\ SameFields(window[i], window[j]) =>
              BuildKey(window[i]) = BuildKey(window[j])
        /\ (SeparatorFree(window[i]) /\ SeparatorFree(window[j])) =>
              (BuildKey(window[i]) = BuildKey(window[j])
                  => SameFields(window[i], window[j]))

\* C10 witness: a window holds two separator-free records of different series
\* and two records of the same series.
C10_Witness ==
    /\ \E i, j \in DOMAIN window :
          /\ SeparatorFree(window[i]) /\ SeparatorFree(window[j])
          /\ ~SameFields(window[i], window[j])
    /\ \E i, j \in DOMAIN window : i # j /\ SameFields(window[i], window[j])

\* ------------------------------------------------------------------------
\* Windows and flushes
\* ------------------------------------------------------------------------
\* A step in which the loop took the ticker branch or the ctx.Done() branch.
FlushStep == tickC' < tickC \/ doneObserved' > doneObserved

\* A step in which the loop received a record.
RecvStep == Len(queue') < Len(queue)

\* C11: every flush, by tick or by shutdown, leaves an empty table, and the
\* first record of a key received after it gives an accumulator of count 1
\* whose latency statistics are those of that record alone.
C11_FreshTableAfterFlush ==
    [][ /\ FlushStep => logEntries' = EmptyTable
        /\ (RecvStep /\ WindowOfKey(BuildKey(Head(queue))) = <<>>) =>
              LET st == Head(queue)
                  v == logEntries'[BuildKey(st)]
              IN /\ v.count = 1
                 /\ v.sumLatency = st.latency
                 /\ v.minLatency = st.latency
                 /\ v.maxLatency = st.latency ]_vars

\* C11 witness: a key already emitted by a flush has a new accumulator of
\* count 1 in the table.
C11_Witness ==
    \E k \in DOMAIN logEntries :
        /\ logEntries[k].count = 1
        /\ \E i \in DOMAIN out : \E s \in out[i] : KeyOf(s) = k

\* C12: a flush of an empty table emits nothing, and after a tick the loop
\* still serves its queue and its ticker.
C12_EmptyFlushEmitsNothing ==
    /\ [][ (FlushStep /\ DOMAIN logEntries = {}) => out' = out ]_vars
    /\ [](lastBranch = "tick" =>
            /\ queue # <<>> => ENABLED LoopRecv
            /\ tickC = 1 => ENABLED LoopTick)

\* C12 witness: the loop took the ticker branch and nothing has ever been
\* emitted, with a record waiting in the queue.
C12_Witness ==
    lastBranch = "tick" /\ out = <<>> /\ queue # <<>>

\* C15: without a detector no summary has an isBot attribute; with one, every
\* summary has isBot 1 when the detector classifies its user agent as a bot
\* and isBot 0 otherwise.
C15_BotFlagFollowsDetector ==
    [][ Emits => \A s \in LastBatch' :
          IF conf.botDetectionService
          THEN s.isBot = << IF s.ua \in BotAgents THEN 1 ELSE 0 >>
          ELSE s.isBot = <<>> ]_vars

\* C15 witness: a summary flagged as a bot was emitted.
C15_Witness ==
    \E i \in DOMAIN out : \E s \in out[i] : s.isBot = <<1>>

\* C20: every accumulator of the table has count >= 1 equal to the number of
\* records merged for its key, min <= every merged latency <= max, and
\* sumLatency equal to the sum of the merged latencies.
C20_AccumulatorInvariant ==
    \A k \in DOMAIN logEntries :
        LET v == logEntries[k]
            rs == WindowOfKey(k)
        IN /\ v.count >= 1
           /\ v.count = Len(rs)
           /\ v.minLatency <= v.maxLatency
           /\ \A l \in Lats(rs) : v.minLatency <= l /\ l <= v.maxLatency
           /\ v.minLatency \in Lats(rs)
           /\ v.maxLatency \in Lats(rs)
           /\ v.sumLatency = SumLat(rs)

\* C20 witness: an accumulator of three records with distinct extremes.
C20_Witness ==
    \E k \in DOMAIN logEntries :
        logEntries[k].count = 3 /\ logEntries[k].minLatency < logEntries[k].maxLatency

\* ------------------------------------------------------------------------
\* Construction and middleware
\* ------------------------------------------------------------------------
\* C13: whatever options are given, building the Logger and starting the
\* engine never panics.
C13_NeverPanics == pc # "panic"

\* A step in which the middleware served a request.
ServeStep == Len(handled') = Len(handled) + 1

\* The request served by a ServeStep.
Served == handled[Len(handled)]

\* C14: with aggregation disabled no queue and no loop exist and every
\* request not skipped is printed at once as exactly one record, without any
\* enqueue; with aggregation enabled nothing is printed and exactly one
\* enqueue is attempted.
C14_RealtimeOrEnqueue ==
    /\ []((pc = "serving" /\ ~conf.isAggregationEnabled) =>
             (~queueCreated /\ tickerPeriod = 0 /\ queue = <<>> /\ sent = 0))
    /\ []((pc = "serving" /\ conf.isAggregationEnabled) =>
             (queueCreated /\ tickerPeriod = conf.aggregationInterval
                /\ logged = <<>>))
    /\ [][ (ServeStep /\ Served'.path \notin conf.excludedPaths) =>
              IF conf.isAggregationEnabled
              THEN logged' = logged /\ sent' = sent + 1
              ELSE /\ Len(logged') = Len(logged) + 1
                   /\ SubSeq(logged', 1, Len(logged)) = logged
                   /\ logged'[Len(logged')].statusCode = Served'.statusCode
                   /\ logged'[Len(logged')].counter = 1
                   /\ sent' = sent /\ queue' = queue ]_vars

\* C14 witness: with aggregation disabled two requests were served and two
\* records printed.
C14_Witness ==
    ~conf.isAggregationEnabled /\ Len(handled) = 2 /\ Len(logged) = 2

\* C16: every record printed by the middleware or by a flush carries the
\* configured defaultLogMessage.
C16_ConfiguredMessage ==
    /\ \A i \in DOMAIN logged : logged[i].msg = conf.defaultLogMessage
    /\ \A i \in DOMAIN out : \A s \in out[i] : s.msg = conf.defaultLogMessage

\* C17: a request whose path is in excludedPaths is neither printed nor
\* enqueued; any other request gives exactly one printed record (aggregation
\* disabled) or exactly one call of send (aggregation enabled).
C17_SkipPaths ==
    [][ ServeStep =>
          IF Served'.path \in conf.excludedPaths
          THEN /\ logged' = logged /\ sent' = sent
               /\ queue' = queue /\ warnings' = warnings
          ELSE IF conf.isAggregationEnabled
               THEN sent' = sent + 1 /\ logged' = logged
               ELSE sent' = sent /\ Len(logged') = Len(logged) + 1 ]_vars

\* C17 witness: a request on a skipped path and one on another path were
\* served, and only one record was printed.
C17_Witness ==
    /\ Len(handled) = 2
    /\ handled[1].path \in conf.excludedPaths
    /\ handled[2].path \notin conf.excludedPaths
    /\ Len(logged) = 1

\* The conf fields an option sets: WithTimeAggregation sets the interval and
\* the enabled flag, every other option one field.
OwnFields(name) ==
    CASE name = "WithTimeAggregation" ->
            {"aggregationInterval", "isAggregationEnabled"}
      [] name = "WithAggregation" -> {"isAggregationEnabled"}
      [] name = "WithQueueSize" -> {"aggregationQueueSize"}
      [] name = "WithLogMessage" -> {"defaultLogMessage"}
      [] name = "WithBotDetector" -> {"botDetectionService"}
      [] name = "WithSkipPaths" -> {"excludedPaths"}

C19_TimeAggregationStartsLoop ==
    [][ /\ (optIdx' = optIdx + 1 /\ opts[optIdx].name = "WithTimeAggregation") =>
              /\ conf'.aggregationInterval = opts[optIdx].arg
              /\ conf'.isAggregationEnabled
        /\ pc = "startLoop" =>
              /\ pc' = "serving"
              /\ queueCreated
              /\ tickerPeriod' = conf.aggregationInterval ]_vars

\* ------------------------------------------------------------------------
\* Emission, ownership of the table and conservation
\* ------------------------------------------------------------------------
\* The sum of the values of a function with a finite domain.
RECURSIVE SumOver(_)
SumOver(f) ==
    IF DOMAIN f = {} THEN 0
    ELSE LET x == CHOOSE y \in DOMAIN f : TRUE
         IN f[x] + SumOver([y \in DOMAIN f \ {x} |-> f[y]])

\* The records counted by the accumulators of the table.
TableCount == SumOver([k \in DOMAIN logEntries |-> logEntries[k].count])

\* The records counted by the summaries of one batch.
BatchCount(b) == SumOver([s \in b |-> s.counter])

\* The records counted by all the summaries emitted so far.
EmittedCount == SumOver([i \in DOMAIN out |-> BatchCount(out[i])])

\* The summaries emitted so far.
EmittedSummaries == SumOver([i \in DOMAIN out |-> Cardinality(out[i])])

\* C21: the count of every accumulator the emitter can be handed, and the
\* counter of every summary it has rendered, is at least 1, so the division
\* of sumLatency by count has a non-zero divisor.
C21_NoDivisionByZero ==
    /\ \A k \in DOMAIN logEntries :
         logEntries[k].isAggregate /\ logEntries[k].count # 0
    /\ \A i \in DOMAIN out : \A s \in out[i] : s.counter >= 1

\* C21 witness: a summary of a single record was emitted; its mean is that
\* record's latency.
C21_Witness ==
    \E i \in DOMAIN out : \E s \in out[i] :
        s.counter = 1 /\ s.meanLatency = s.minLatency
                      /\ s.meanLatency = s.maxLatency

\* The fields of an accumulator that a merge updates.
StatFields ==
    {"count", "sumLatency", "minLatency", "maxLatency", "sumSizeRespoBody"}

\* C22: a receive that creates an accumulator copies its identity fields from
\* the record and the detector; a receive that merges into an accumulator
\* leaves every field other than count, sumLatency, minLatency, maxLatency
\* and sumSizeRespoBody as it was; no other accumulator is touched.
C22_IdentityFrame ==
    [][ RecvStep =>
          LET st == Head(queue)
              key == BuildKey(st)
          IN /\ DOMAIN logEntries' = DOMAIN logEntries \cup {key}
             /\ \A k \in DOMAIN logEntries \ {key} :
                  logEntries'[k] = logEntries[k]
             /\ IF key \in DOMAIN logEntries
                THEN \A f \in DOMAIN logEntries[key] \ StatFields :
                       logEntries'[key][f] = logEntries[key][f]
                ELSE /\ logEntries'[key].ip = st.ip
                     /\ logEntries'[key].remoteIp = st.remoteIp
                     /\ logEntries'[key].ua = st.ua
                     /\ logEntries'[key].method = st.method
                     /\ logEntries'[key].proto = st.proto
                     /\ logEntries'[key].aggregatePath = st.aggregatePath
                     /\ logEntries'[key].statusCode = st.statusCode
                     /\ logEntries'[key].isBotDetectorEnabled
                          = conf.botDetectionService
                     /\ logEntries'[key].isBot
                          = IF conf.botDetectionService /\ st.ua \in BotAgents
                            THEN 1 ELSE 0 ]_vars

\* C22 witness: an accumulator that merged a record whose user agent differs
\* from the one it was created with.
C22_Witness ==
    \E k \in DOMAIN logEntries :
        /\ logEntries[k].count >= 2
        /\ \E i \in DOMAIN window :
             BuildKey(window[i]) = k /\ window[i].ua # logEntries[k].ua

\* C23: the loop has asked the detector once for every accumulator it ever
\* created (those of the table and those already emitted) and never without a
\* detector; the only step that asks is a receive that creates an
\* accumulator; a merge leaves the flags alone, and a flush emits the flags
\* held by the table.
C23_DetectorOncePerAccumulator ==
    /\ [](loopIsBotCalls = IF conf.botDetectionService
                           THEN Cardinality(DOMAIN logEntries)
                                + EmittedSummaries
                           ELSE 0)
    /\ [][ /\ loopIsBotCalls' # loopIsBotCalls =>
                /\ RecvStep
                /\ BuildKey(Head(queue)) \notin DOMAIN logEntries
                /\ loopIsBotCalls' = loopIsBotCalls + 1
           /\ (RecvStep /\ BuildKey(Head(queue)) \in DOMAIN logEntries) =>
                LET key == BuildKey(Head(queue))
                IN /\ logEntries'[key].isBot = logEntries[key].isBot
                   /\ logEntries'[key].isBotDetectorEnabled
                        = logEntries[key].isBotDetectorEnabled
           /\ Emits =>
                \A k \in DOMAIN logEntries : \E s \in LastBatch' :
                    /\ KeyOf(s) = k
                    /\ s.isBot = IF logEntries[k].isBotDetectorEnabled
                                 THEN <<logEntries[k].isBot>> ELSE <<>> ]_vars

\* C23 witness: a summary of two records flagged as a bot was emitted after a
\* single question to the detector.
C23_Witness ==
    /\ loopIsBotCalls = 1
    /\ \E i \in DOMAIN out : \E s \in out[i] :
         s.counter = 2 /\ s.isBot = <<1>>

\* A step in which the loop took a tick from t.C.
TickStep == tickC' < tickC

\* C24: a tick taken before shutdown was observed emits one summary for every
\* key of the table (one for every distinct key merged in the window) in one
\* batch, keeps the earlier batches, replaces the table with an empty one and
\* does not stop the loop: it still takes records and ticks.
C24_TickFlushesAll ==
    /\ [][ (TickStep /\ doneObserved = 0) =>
             /\ IF DOMAIN logEntries = {}
                THEN out' = out
                ELSE /\ Len(out') = Len(out) + 1
                     /\ SubSeq(out', 1, Len(out)) = out
                     /\ Cardinality(LastBatch')
                          = Cardinality(DOMAIN logEntries)
                     /\ Cardinality(LastBatch')
                          = Cardinality({ BuildKey(window[i]) :
                                            i \in DOMAIN window })
                     /\ \A k \in DOMAIN logEntries :
                          Cardinality({ s \in LastBatch' : KeyOf(s) = k }) = 1
             /\ logEntries' = EmptyTable
             /\ doneObserved' = 0
             /\ tickerStopped' = tickerStopped ]_vars
    /\ []((lastBranch = "tick" /\ doneObserved = 0) =>
            /\ ~tickerStopped
            /\ queue # <<>> => ENABLED LoopRecv
            /\ tickC = 0 => ENABLED Tick
            /\ tickC = 1 => ENABLED LoopTick)

\* C24 witness: a tick before shutdown emitted a batch of two summaries and
\* left an empty table.
C24_Witness ==
    /\ lastBranch = "tick"
    /\ doneObserved = 0
    /\ out # <<>>
    /\ Cardinality(LastBatch) = 2
    /\ DOMAIN logEntries = {}

\* An accumulator that holds the whole of the records rs merged for its key.
FullyMerged(v, rs) ==
    /\ rs # <<>>
    /\ v.count = Len(rs)
    /\ v.sumLatency = SumLat(rs)
    /\ v.minLatency = MinOf(Lats(rs))
    /\ v.maxLatency = MaxOf(Lats(rs))
    /\ v.sumSizeRespoBody = Head(rs).responseBodySize + SumSize(rs)

\* C25: every step handles at most one event (one record, one tick or one
\* observation of cancellation); the table and the output change only in
\* steps of the loop and never in a step of a producer; every accumulator of
\* the table is fully merged in every state, and a flush emits exactly the
\* rendering of the accumulators of the table.
C25_LoopOwnsTable ==
    /\ [](\A k \in DOMAIN logEntries :
            FullyMerged(logEntries[k], WindowOfKey(k)))
    /\ [][ /\ (logEntries' # logEntries \/ out' # out) =>
                (RecvStep \/ FlushStep)
           /\ sent' # sent =>
                (logEntries' = logEntries /\ out' = out /\ window' = window)
           /\ ~(RecvStep /\ FlushStep)
           /\ ~(TickStep /\ doneObserved' > doneObserved)
           /\ Len(queue) - Len(queue') <= 1
           /\ RecvStep => Len(window') = Len(window) + 1
           /\ Emits =>
                LastBatch' = { printLog("api_logger v1", logEntries[k]) :
                                 k \in DOMAIN logEntries } ]_vars

\* C25 witness: a flush emitted a summary of two records of different
\* latencies while a producer's record was waiting in the queue.
C25_Witness ==
    /\ queue # <<>>
    /\ lastBranch = "tick"
    /\ out # <<>>
    /\ \E s \in LastBatch : s.counter = 2 /\ s.minLatency < s.maxLatency

\* C26: the queue never holds more records than its configured capacity.
C26_QueueBounded == Len(queue) <= conf.aggregationQueueSize

\* C26 witness: a send found the queue full at capacity 2.
C26_Witness ==
    /\ conf.aggregationQueueSize = 2
    /\ Len(queue) = 2
    /\ warnings >= 1

\* C27: until shutdown is observed, the records passed to send are the
\* dropped ones, the queued ones, the ones counted in the table and the ones
\* counted in emitted summaries, each counted once.
C27_Conservation ==
    doneObserved = 0 =>
        sent = warnings + Len(queue) + TableCount + EmittedCount

\* C27 witness: before shutdown, one record was dropped, one is counted in
\* the table and one in an emitted summary.
C27_Witness ==
    /\ doneObserved = 0
    /\ warnings = 1
    /\ TableCount = 1
    /\ EmittedCount = 1

\* ------------------------------------------------------------------------
\* Arrival order
\* ------------------------------------------------------------------------
\* The accumulator the loop builds from the records rs, starting from v.
RECURSIVE Merge(_, _)
Merge(v, rs) == IF rs = <<>> THEN v ELSE Merge(UpdateStats(v, Head(rs)), Tail(rs))

\* The accumulator of a window in which the records rs arrive in this order.
Accumulate(rs) == Merge(NewEntry(conf, Head(rs)), rs)

\* The statistical fields of an accumulator.
StatsOf(v) ==
    <<v.count, v.minLatency, v.maxLatency, v.sumLatency, v.sumSizeRespoBody>>

\* The arrival orders of the records rs.
Orders(rs) ==
    { [i \in DOMAIN rs |-> rs[p[i]]] :
        p \in { q \in [DOMAIN rs -> DOMAIN rs] :
                  \A i, j \in DOMAIN rs : q[i] = q[j] => i = j } }

\* C29: the statistical fields of an accumulator are those of every other
\* arrival order of the records merged into it.
C29_OrderIndependent ==
    \A k \in DOMAIN logEntries :
        \A rs \in Orders(WindowOfKey(k)) :
            StatsOf(logEntries[k]) = StatsOf(Accumulate(rs))

\* ------------------------------------------------------------------------
\* Progress of the loop while the ticker runs and the context is live
\* ------------------------------------------------------------------------
\* The records the producers send in the runs checked for progress: two keys.
LiveObservations ==
    { Obs("1", 200, "a", "G", "h", "p", 50, 100),
      Obs("1", 404, "a", "G", "h", "", 20, 0) }

\* The engine runs with a context that is never cancelled.
InitLive == Init

NextLive ==
    \/ \E l \in LiveObservations : send(l)
    \/ Tick
    \/ LoopTick
    \/ LoopRecv

\* select picks among the ready cases at random, so a case that stays ready
\* is taken; a ready case of the loop stays ready until the loop takes it
\* (producers only append to the queue, the ticker only fills t.C); the
\* ticker keeps delivering ticks.
SpecLive ==
    /\ InitLive
    /\ [][NextLive]_vars
    /\ WF_vars(LoopRecv)
    /\ WF_vars(LoopTick)
    /\ WF_vars(Tick)

C30_RealtimeCarriesIsBot ==
    (conf.botDetectionService /\ ~conf.isAggregationEnabled) =>
        \A i \in DOMAIN logged :
            logged[i].isBot = << IF logged[i].ua \in BotAgents THEN 1 ELSE 0 >>

====
